---- MODULE Spec2Model ----
(***************************************************************************)
(* PeakAlloc (src/src/lib.rs): an allocator middleware that keeps two      *)
(* atomic counters, the running balance peak_bytes_allocated_tracker and   *)
(* the peak peak_bytes_allocated, around an inner GlobalAlloc.             *)
(*                                                                         *)
(* Every SeqCst atomic access of the source is one step of the model, and  *)
(* so is every call of the inner allocator, so that threads interleave     *)
(* between any two of them.                                                *)
(***************************************************************************)
EXTENDS Integers, Sequences, FiniteSets, TLC

\* ---------------------------------------------------------------- bounds
\* The threads of the general specification Spec: two, so that any two calls
\* overlap in every way (SpecOnce has NThreads threads).
Procs == {1, 2}
\* Calls started, over all threads, in a behaviour of Spec.
MaxCalls == 3
\* Calls issued one after another in a behaviour of SpecSeq.
MaxSeqCalls == 5
\* Threads of SpecOnce, each allocating BlockBytes once and then freeing them.
NThreads == 3
BlockBytes == 100
\* Width of isize/usize in the model (the casts of track_alloc are modelled
\* at this width).
WordBits == 16

\* layout.size() and new_size are drawn from Sizes.
Sizes == {100, 500}

Modulus == 2 ^ WordBits

Max(a, b) == IF a >= b THEN a ELSE b

\* `x as usize`: the two's complement reading of an isize.
AsUsize(x) == x % Modulus

\* `x as isize`: the signed reading of a usize.
AsIsize(u) == IF (u % Modulus) >= Modulus \div 2 THEN (u % Modulus) - Modulus ELSE u % Modulus

\* Wrapping isize arithmetic (AtomicIsize::fetch_add / fetch_sub wrap).
WrapIsize(x) == AsIsize(AsUsize(x))

VARIABLES
  peak_bytes_allocated_tracker, \* AtomicIsize: the running balance
  peak_bytes_allocated,         \* AtomicUsize: the peak
  pc,                           \* per thread: the next step of its call
  frame,                        \* per thread: arguments and locals of its call
  ncalls,                       \* calls started so far, over all threads
  script,                       \* per thread: calls it has started of its script (SpecOnce)
  pool,                         \* blocks the program holds outside any call: size -> count
  \* history variables (not read by any step of the program)
  maxLive,                      \* largest LiveBytes so far
  unbacked,                     \* bytes added by track_alloc that the inner allocator has not (or not yet) backed with memory
  maxUnbacked,                  \* largest unbacked so far
  seenMax,                      \* largest max(0, v) over the values v of the balance in the current epoch
  allocMax,                     \* largest max(0, balance just after a fetch_add) in the current epoch
  tracked,                      \* bytes tracked as allocated less bytes tracked as deallocated in the current epoch
  last,                         \* the call that returned last
  quiet                         \* what has happened since a reset last returned

vars == <<peak_bytes_allocated_tracker, peak_bytes_allocated, pc, frame, ncalls, script, pool,
          maxLive, unbacked, maxUnbacked, seenMax, allocMax, tracked, last, quiet>>

counters == <<peak_bytes_allocated_tracker, peak_bytes_allocated>>

Threads == DOMAIN pc

\* The frame of a call:
\*   op        the function called
\*   size      layout.size()
\*   new_size  realloc's new_size
\*   bytes     the argument of track_alloc / track_dealloc
\*   prev      track_alloc's prev, the result of fetch_add
\*   post      the balance as track_alloc's fetch_add left it
\*   offered   track_alloc's current_peak, the argument of fetch_max
\*   blk       the size of the live block the call holds (0: none)
\*   ptr       the pointer the inner allocator returned: "block" or "null"
\*   ret       the value get_peak_memory returns
\*   log       the steps the call has taken so far, in order
\*   inner     the calls it has made of the inner allocator, in order: the
\*             function, its layout.size() and new_size, and what it returned
\* and, for the history: bal0 and peak0, the counters when the call began,
\* and live0, the LiveBytes then;
\* quiet0, for a reset whether an allocating call has overlapped it ("dirty")
\* or not ("clean"), and for a get_peak_memory the value of quiet at its load.
\*
\* quiet is "clean" or "dirty" from the return of a reset until the next
\* allocating call begins, and "none" otherwise; "clean" when no allocating
\* call was between its start and its fetch_max while that reset ran.
\*
\* A thread outside any call.
NoFrame == [op |-> "none", size |-> 0, new_size |-> 0, bytes |-> 0, prev |-> 0,
            post |-> 0, offered |-> 0, blk |-> 0, ptr |-> "none", ret |-> 0, log |-> <<>>, inner |-> <<>>,
            bal0 |-> 0, peak0 |-> 0, live0 |-> 0, quiet0 |-> "none"]

NoCall == [op |-> "none", size |-> 0, new_size |-> 0, ptr |-> "none", bal0 |-> 0, peak0 |-> 0]

RECURSIVE SumOver(_, _)
SumOver(f, S) == IF S = {} THEN 0
                 ELSE LET x == CHOOSE y \in S : TRUE IN f[x] + SumOver(f, S \ {x})

PoolBytes == SumOver([s \in DOMAIN pool |-> s * pool[s]], DOMAIN pool)

\* Bytes of all blocks the inner allocator has returned and has not yet been
\* asked to free: those in the pool and those a call in progress holds.
LiveBytes == PoolBytes + SumOver([t \in Threads |-> frame[t].blk], Threads)

\* With one thread no two calls overlap, and "the call before this one" is
\* defined: only then is the history of calls (last, bal0, peak0, live0) recorded.
SingleThreaded == Threads = {1}

AllocatingOps == {"alloc", "alloc_zeroed"}

\* A call that will still offer a value to the peak: started, growing, and not
\* yet past its fetch_max.
Allocating(t) == pc[t] \in {"track_alloc_add", "track_alloc_max"}

\* ------------------------------------------------------ the atomic operations
\* AtomicIsize::fetch_add(bytes as isize): the new value of the balance.
fetch_add(old, bytes) == WrapIsize(old + AsIsize(bytes))

\* Mutant of fetch_sub: the deallocated bytes are added instead of subtracted.
fetch_sub_adds(old, bytes) == WrapIsize(old + AsIsize(bytes))

\* Mutant of fetch_sub: the balance is kept from going below 0.
fetch_sub_clamped(old, bytes) == Max(0, WrapIsize(old - AsIsize(bytes)))

\* AtomicIsize::fetch_sub(bytes as isize): the new value of the balance.
fetch_sub(old, bytes) == WrapIsize(old - AsIsize(bytes))

\* Mutant of fetch_max: a plain store of the offered value.
fetch_max_stores(old, v) == v

\* AtomicUsize::fetch_max(v): the new value of the peak.
fetch_max(old, v) == IF v > old THEN v ELSE old

\* Mutant of current_peak: fetch_add's result taken for the new balance, and
\* the bytes added to it once more.
current_peak_twice(prev, bytes) ==
  AsUsize(Max(WrapIsize(prev + AsIsize(bytes) + AsIsize(bytes)), 0))

\* Mutant of current_peak: fetch_add's result (the balance before the add)
\* offered to the peak as it is.
current_peak_prev(prev, bytes) == AsUsize(Max(prev, 0))

\* Mutant of current_peak: the sum cast to usize without the clamp.
current_peak_unclamped(prev, bytes) == AsUsize(WrapIsize(prev + AsIsize(bytes)))

\* let current_peak = (prev + bytes as isize).max(0) as usize;
\* (the sum wraps as fetch_add's does; no reachable state overflows)
current_peak(prev, bytes) == AsUsize(Max(WrapIsize(prev + AsIsize(bytes)), 0))

\* ------------------------------------------------------ history bookkeeping
\* The balance took the value v.
Saw(v) == seenMax' = Max(seenMax, Max(0, v))

LiveHistory == maxLive' = Max(maxLive, LiveBytes')

\* The frames when an allocating call begins: every reset in progress is
\* marked as overlapped by it.
Overlap(fr) == [u \in DOMAIN fr |->
                 IF fr[u].op = "reset_peak_memory" THEN [fr[u] EXCEPT !.quiet0 = "dirty"] ELSE fr[u]]

\* A call begins: the thread leaves "idle" with the frame f. (What the call is
\* to the thread's script is said by the specification that starts it.)
Enter(t, f, first) ==
  /\ pc[t] = "idle"
  /\ pc' = [pc EXCEPT ![t] = first]
  /\ frame' = [(IF first = "track_alloc_add" THEN Overlap(frame) ELSE frame) EXCEPT ![t] =
                 IF SingleThreaded
                 THEN [f EXCEPT !.bal0 = peak_bytes_allocated_tracker, !.peak0 = peak_bytes_allocated,
                                !.live0 = LiveBytes]
                 ELSE f]
  /\ quiet' = IF first = "track_alloc_add" THEN "none" ELSE quiet
  /\ ncalls' = ncalls + 1

\* A step of thread t from pc value `from` to `to` that changes its frame to f.
Step(t, from, to, f) ==
  /\ pc[t] = from
  /\ pc' = [pc EXCEPT ![t] = to]
  /\ frame' = [frame EXCEPT ![t] = f]

\* ------------------------------------------------------------ the calls
\* unsafe fn alloc(&self, layout: Layout): the call begins.
alloc(t, size) ==
  /\ Enter(t, [NoFrame EXCEPT !.op = "alloc", !.size = size, !.bytes = size], "track_alloc_add")
  /\ UNCHANGED <<counters, pool, maxLive, unbacked, maxUnbacked, seenMax, allocMax, tracked, last>>

\* unsafe fn alloc_zeroed(&self, layout: Layout): the call begins.
alloc_zeroed(t, size) ==
  /\ Enter(t, [NoFrame EXCEPT !.op = "alloc_zeroed", !.size = size, !.bytes = size], "track_alloc_add")
  /\ UNCHANGED <<counters, pool, maxLive, unbacked, maxUnbacked, seenMax, allocMax, tracked, last>>

\* Mutant of dealloc: the inner allocator is called first, before the balance
\* has been lowered.
dealloc_inner_first(t, size) ==
  /\ pool[size] > 0
  /\ pool' = [pool EXCEPT ![size] = @ - 1]
  /\ Enter(t, [NoFrame EXCEPT !.op = "dealloc", !.size = size, !.bytes = size, !.blk = size],
           "inner_dealloc")
  /\ UNCHANGED <<counters, maxLive, unbacked, maxUnbacked, seenMax, allocMax, tracked, last>>

\* unsafe fn dealloc(&self, ptr, layout): the call begins with a block of the
\* program, of size layout.size().
dealloc(t, size) ==
  /\ pool[size] > 0
  /\ pool' = [pool EXCEPT ![size] = @ - 1]
  /\ Enter(t, [NoFrame EXCEPT !.op = "dealloc", !.size = size, !.bytes = size, !.blk = size],
           "track_dealloc")
  /\ UNCHANGED <<counters, maxLive, unbacked, maxUnbacked, seenMax, allocMax, tracked, last>>

\* Mutant of realloc: a growing realloc tracks the whole new size.
realloc_whole(t, size, new_size) ==
  /\ pool[size] > 0
  /\ pool' = [pool EXCEPT ![size] = @ - 1]
  /\ LET f == [NoFrame EXCEPT !.op = "realloc", !.size = size, !.new_size = new_size, !.blk = size]
     IN IF new_size > size
        THEN Enter(t, [f EXCEPT !.bytes = new_size], "track_alloc_add")
        ELSE IF new_size < size
        THEN Enter(t, [f EXCEPT !.bytes = size - new_size], "track_dealloc")
        ELSE Enter(t, f, "inner_realloc")
  /\ UNCHANGED <<counters, maxLive, unbacked, maxUnbacked, seenMax, allocMax, tracked, last>>

\* unsafe fn realloc(&self, ptr, layout, new_size): the call begins with a
\* block of the program and takes the branch of lines 147-153.
realloc(t, size, new_size) ==
  /\ pool[size] > 0
  /\ pool' = [pool EXCEPT ![size] = @ - 1]
  /\ LET f == [NoFrame EXCEPT !.op = "realloc", !.size = size, !.new_size = new_size, !.blk = size]
     IN IF new_size > size
        THEN Enter(t, [f EXCEPT !.bytes = new_size - size], "track_alloc_add")
        ELSE IF new_size < size
        THEN Enter(t, [f EXCEPT !.bytes = size - new_size], "track_dealloc")
        ELSE Enter(t, f, "inner_realloc")
  /\ UNCHANGED <<counters, maxLive, unbacked, maxUnbacked, seenMax, allocMax, tracked, last>>

\* pub fn reset_peak_memory(&self): the call begins.
reset_peak_memory(t) ==
  /\ Enter(t, [NoFrame EXCEPT !.op = "reset_peak_memory",
                              !.quiet0 = IF \E u \in Threads : Allocating(u) THEN "dirty" ELSE "clean"],
           "reset_store_peak")
  /\ UNCHANGED <<counters, pool, maxLive, unbacked, maxUnbacked, seenMax, allocMax, tracked, last>>

\* pub fn get_peak_memory(&self): the call begins.
get_peak_memory(t) ==
  /\ Enter(t, [NoFrame EXCEPT !.op = "get_peak_memory"], "load_peak")
  /\ UNCHANGED <<counters, pool, maxLive, unbacked, maxUnbacked, seenMax, allocMax, tracked, last>>

\* ------------------------------------------------------------ the steps
\* track_alloc, lines 93-95: prev = tracker.fetch_add(bytes as isize, SeqCst).
track_alloc_fetch_add(t) ==
  /\ Step(t, "track_alloc_add", "track_alloc_max",
          [frame[t] EXCEPT !.prev = peak_bytes_allocated_tracker,
                           !.post = fetch_add(peak_bytes_allocated_tracker, frame[t].bytes),
                           !.log = Append(@, "fetch_add")])
  /\ peak_bytes_allocated_tracker' = fetch_add(peak_bytes_allocated_tracker, frame[t].bytes)
  /\ Saw(peak_bytes_allocated_tracker')
  /\ allocMax' = Max(allocMax, Max(0, peak_bytes_allocated_tracker'))
  /\ tracked' = tracked + frame[t].bytes
  /\ unbacked' = unbacked + frame[t].bytes
  /\ maxUnbacked' = Max(maxUnbacked, unbacked')
  /\ UNCHANGED <<peak_bytes_allocated, ncalls, script, pool, maxLive, last, quiet>>

\* Mutant of track_alloc_fetch_max: the peak is updated under a lock that a
\* thread holds from its fetch_add on, so the update waits for the others.
track_alloc_fetch_max_locked(t) ==
  /\ \A u \in Threads \ {t} : pc[u] # "track_alloc_max"
  /\ Step(t, "track_alloc_max", IF frame[t].op = "realloc" THEN "inner_realloc" ELSE "inner_alloc",
          [frame[t] EXCEPT !.offered = current_peak(frame[t].prev, frame[t].bytes),
                           !.log = Append(@, "fetch_max")])
  /\ peak_bytes_allocated' =
       fetch_max(peak_bytes_allocated, current_peak(frame[t].prev, frame[t].bytes))
  /\ UNCHANGED <<peak_bytes_allocated_tracker, ncalls, script, pool, maxLive, unbacked, maxUnbacked,
                 seenMax, allocMax, tracked, last, quiet>>

\* Mutant of track_alloc_fetch_max: realloc's growth is offered to the peak
\* without the clamp.
track_alloc_fetch_max_bare_growth(t) ==
  /\ Step(t, "track_alloc_max", IF frame[t].op = "realloc" THEN "inner_realloc" ELSE "inner_alloc",
          [frame[t] EXCEPT !.offered = IF frame[t].op = "realloc"
                                       THEN current_peak_unclamped(frame[t].prev, frame[t].bytes)
                                       ELSE current_peak(frame[t].prev, frame[t].bytes),
                           !.log = Append(@, "fetch_max")])
  /\ peak_bytes_allocated' =
       fetch_max(peak_bytes_allocated,
                 IF frame[t].op = "realloc"
                 THEN current_peak_unclamped(frame[t].prev, frame[t].bytes)
                 ELSE current_peak(frame[t].prev, frame[t].bytes))
  /\ UNCHANGED <<peak_bytes_allocated_tracker, ncalls, script, pool, maxLive, unbacked, maxUnbacked,
                 seenMax, allocMax, tracked, last, quiet>>

\* track_alloc, lines 96-98: peak.fetch_max(current_peak, SeqCst); then the
\* caller goes on to its inner call (line 130, 142 or 154).
track_alloc_fetch_max(t) ==
  /\ Step(t, "track_alloc_max", IF frame[t].op = "realloc" THEN "inner_realloc" ELSE "inner_alloc",
          [frame[t] EXCEPT !.offered = current_peak(frame[t].prev, frame[t].bytes),
                           !.log = Append(@, "fetch_max")])
  /\ peak_bytes_allocated' =
       fetch_max(peak_bytes_allocated, current_peak(frame[t].prev, frame[t].bytes))
  /\ UNCHANGED <<peak_bytes_allocated_tracker, ncalls, script, pool, maxLive, unbacked, maxUnbacked,
                 seenMax, allocMax, tracked, last, quiet>>

\* Mutant of track_dealloc: the peak is brought down to the new balance.
track_dealloc_lowers_peak(t) ==
  /\ Step(t, "track_dealloc", IF frame[t].op = "realloc" THEN "inner_realloc" ELSE "inner_dealloc",
          [frame[t] EXCEPT !.log = Append(@, "fetch_sub")])
  /\ peak_bytes_allocated_tracker' = fetch_sub(peak_bytes_allocated_tracker, frame[t].bytes)
  /\ peak_bytes_allocated' = AsUsize(Max(peak_bytes_allocated_tracker', 0))
  /\ Saw(peak_bytes_allocated_tracker')
  /\ tracked' = tracked - frame[t].bytes
  /\ UNCHANGED <<ncalls, script, pool, maxLive, unbacked, maxUnbacked, allocMax, last, quiet>>

\* track_dealloc, lines 103-104: tracker.fetch_sub(bytes as isize, SeqCst);
\* then the caller goes on to its inner call (line 136 or 154).
track_dealloc(t) ==
  /\ Step(t, "track_dealloc", IF frame[t].op = "realloc" THEN "inner_realloc" ELSE "inner_dealloc",
          [frame[t] EXCEPT !.log = Append(@, "fetch_sub")])
  /\ peak_bytes_allocated_tracker' = fetch_sub(peak_bytes_allocated_tracker, frame[t].bytes)
  /\ Saw(peak_bytes_allocated_tracker')
  /\ tracked' = tracked - frame[t].bytes
  /\ UNCHANGED <<peak_bytes_allocated, ncalls, script, pool, maxLive, unbacked, maxUnbacked,
                 allocMax, last, quiet>>

\* Mutant of inner_alloc: a tracker with a quota of its own, which returns
\* null without calling the inner allocator once the peak is above BlockBytes.
inner_alloc_with_quota(t) ==
  /\ \E ok \in BOOLEAN :
       /\ Step(t, "inner_alloc", "done",
               IF peak_bytes_allocated > BlockBytes
               THEN [frame[t] EXCEPT !.ptr = "null", !.log = Append(@, "quota")]
               ELSE [frame[t] EXCEPT !.ptr = IF ok THEN "block" ELSE "null",
                                     !.blk = IF ok THEN frame[t].size ELSE 0,
                                     !.log = Append(@, "inner"),
                                     !.inner = Append(@, [fn |-> IF frame[t].op = "alloc_zeroed"
                                                                 THEN "alloc_zeroed" ELSE "alloc",
                                                          size |-> frame[t].size, new_size |-> 0,
                                                          ret |-> IF ok THEN "block" ELSE "null"])])
       /\ unbacked' = IF ok /\ peak_bytes_allocated <= BlockBytes
                      THEN unbacked - frame[t].bytes ELSE unbacked
  /\ UNCHANGED <<counters, ncalls, script, pool, maxUnbacked, seenMax, allocMax, tracked, last, quiet>>
  /\ LiveHistory

\* Mutant of inner_alloc: when the inner allocator returns null, the bytes
\* are taken off the balance again.
inner_alloc_rolls_back(t) ==
  /\ \E ok \in BOOLEAN :
       /\ Step(t, "inner_alloc", "done",
               [frame[t] EXCEPT !.ptr = IF ok THEN "block" ELSE "null",
                                !.blk = IF ok THEN frame[t].size ELSE 0,
                                !.log = Append(@, "inner"),
                                !.inner = Append(@, [fn |-> IF frame[t].op = "alloc_zeroed"
                                                            THEN "alloc_zeroed" ELSE "alloc",
                                                     size |-> frame[t].size, new_size |-> 0,
                                                     ret |-> IF ok THEN "block" ELSE "null"])])
       /\ unbacked' = unbacked - frame[t].bytes
       /\ peak_bytes_allocated_tracker' =
            IF ok THEN peak_bytes_allocated_tracker
            ELSE fetch_sub(peak_bytes_allocated_tracker, frame[t].bytes)
  /\ UNCHANGED <<peak_bytes_allocated, ncalls, script, pool, maxUnbacked, seenMax, allocMax, tracked, last, quiet>>
  /\ LiveHistory

\* self.inner.alloc(layout) / self.inner.alloc_zeroed(layout), lines 130 and
\* 142: the inner allocator returns a block or null, and the call returns that.
inner_alloc(t) ==
  /\ \E ok \in BOOLEAN :
       /\ Step(t, "inner_alloc", "done",
               [frame[t] EXCEPT !.ptr = IF ok THEN "block" ELSE "null",
                                !.blk = IF ok THEN frame[t].size ELSE 0,
                                !.log = Append(@, "inner"),
                                !.inner = Append(@, [fn |-> IF frame[t].op = "alloc_zeroed"
                                                            THEN "alloc_zeroed" ELSE "alloc",
                                                     size |-> frame[t].size, new_size |-> 0,
                                                     ret |-> IF ok THEN "block" ELSE "null"])])
       /\ unbacked' = IF ok THEN unbacked - frame[t].bytes ELSE unbacked
  /\ UNCHANGED <<counters, ncalls, script, pool, maxUnbacked, seenMax, allocMax, tracked, last, quiet>>
  /\ LiveHistory

\* self.inner.dealloc(ptr, layout), line 136: the block is given back.
inner_dealloc(t) ==
  /\ Step(t, "inner_dealloc", "done",
          [frame[t] EXCEPT !.blk = 0,
                           !.log = Append(@, "inner"),
                           !.inner = Append(@, [fn |-> "dealloc", size |-> frame[t].size,
                                                new_size |-> 0, ret |-> "none"])])
  /\ UNCHANGED <<counters, ncalls, script, pool, unbacked, maxUnbacked, seenMax, allocMax, tracked, last, quiet>>
  /\ LiveHistory

\* self.inner.realloc(ptr, layout, new_size), line 154: the inner allocator
\* returns the block resized, or null and leaves the block as it was.
inner_realloc(t) ==
  /\ \E ok \in BOOLEAN :
       /\ Step(t, "inner_realloc", "done",
               [frame[t] EXCEPT !.ptr = IF ok THEN "block" ELSE "null",
                                !.blk = IF ok THEN frame[t].new_size ELSE frame[t].size,
                                !.log = Append(@, "inner"),
                                !.inner = Append(@, [fn |-> "realloc", size |-> frame[t].size,
                                                     new_size |-> frame[t].new_size,
                                                     ret |-> IF ok THEN "block" ELSE "null"])])
       /\ unbacked' = IF ok /\ frame[t].new_size > frame[t].size
                      THEN unbacked - frame[t].bytes ELSE unbacked
  /\ UNCHANGED <<counters, ncalls, script, pool, maxUnbacked, seenMax, allocMax, tracked, last, quiet>>
  /\ LiveHistory

\* Mutant of reset_store_peak: the peak is left as it is.
reset_store_peak_skipped(t) ==
  /\ Step(t, "reset_store_peak", "reset_store_tracker", frame[t])
  /\ UNCHANGED <<counters, ncalls, script, pool, maxLive, unbacked, maxUnbacked,
                 seenMax, allocMax, tracked, last, quiet>>

\* reset_peak_memory, line 82: self.peak_bytes_allocated.store(0, SeqCst).
reset_store_peak(t) ==
  /\ Step(t, "reset_store_peak", "reset_store_tracker", [frame[t] EXCEPT !.log = Append(@, "store_peak")])
  /\ peak_bytes_allocated' = 0
  /\ UNCHANGED <<peak_bytes_allocated_tracker, ncalls, script, pool, maxLive, unbacked, maxUnbacked,
                 seenMax, allocMax, tracked, last, quiet>>

\* reset_peak_memory, line 83: self.peak_bytes_allocated_tracker.store(0, SeqCst).
\* The store begins a new measurement epoch.
reset_store_tracker(t) ==
  /\ Step(t, "reset_store_tracker", "done", [frame[t] EXCEPT !.log = Append(@, "store_tracker")])
  /\ peak_bytes_allocated_tracker' = 0
  /\ seenMax' = 0
  /\ allocMax' = 0
  /\ tracked' = 0
  /\ UNCHANGED <<peak_bytes_allocated, ncalls, script, pool, maxLive, unbacked, maxUnbacked, last, quiet>>

\* get_peak_memory, line 88: self.peak_bytes_allocated.load(SeqCst).
load_peak(t) ==
  /\ Step(t, "load_peak", "done",
          [frame[t] EXCEPT !.ret = peak_bytes_allocated, !.quiet0 = quiet, !.log = Append(@, "load")])
  /\ UNCHANGED <<counters, ncalls, script, pool, maxLive, unbacked, maxUnbacked, seenMax, allocMax, tracked,
                 last, quiet>>

\* The call returns to the program, which from now on holds the block the
\* call ended with (alloc and realloc).
Return(t) ==
  /\ Step(t, "done", "idle", NoFrame)
  /\ pool' = IF frame[t].blk > 0 THEN [pool EXCEPT ![frame[t].blk] = @ + 1] ELSE pool
  /\ last' = IF SingleThreaded
             THEN [op |-> frame[t].op, size |-> frame[t].size, new_size |-> frame[t].new_size,
                   ptr |-> frame[t].ptr, bal0 |-> frame[t].bal0, peak0 |-> frame[t].peak0]
             ELSE last
  /\ quiet' = IF frame[t].op = "reset_peak_memory" /\ quiet # "clean" THEN frame[t].quiet0
              ELSE quiet
  /\ UNCHANGED <<counters, ncalls, script, maxLive, unbacked, maxUnbacked, seenMax, allocMax, tracked>>

\* ------------------------------------------------------- specifications
AllIdle == \A t \in Threads : pc[t] = "idle"

\* Threads keep nothing between calls, so the next call is started by the
\* least idle thread.
LeastIdle(t) == pc[t] = "idle" /\ \A u \in Threads : u < t => pc[u] # "idle"

InitWith(threads, sizes) ==
  /\ peak_bytes_allocated_tracker = 0
  /\ peak_bytes_allocated = 0
  /\ pc = [t \in threads |-> "idle"]
  /\ frame = [t \in threads |-> NoFrame]
  /\ ncalls = 0
  /\ script = [t \in threads |-> 0]
  /\ pool = [s \in sizes |-> 0]
  /\ maxLive = 0
  /\ unbacked = 0
  /\ maxUnbacked = 0
  /\ seenMax = 0
  /\ allocMax = 0
  /\ tracked = 0
  /\ last = NoCall
  /\ quiet = "none"

\* PeakAlloc::new(inner) / PeakAlloc::system() / INSTRUMENTED_SYSTEM.
Init == InitWith(Procs, Sizes)

\* Any interleaving of at most MaxCalls calls from the threads of Procs.
MayBegin(t) == ncalls < MaxCalls /\ LeastIdle(t) /\ UNCHANGED script

Next ==
  \E t \in Procs :
    \/ MayBegin(t) /\ \E s \in Sizes : alloc(t, s)
    \/ MayBegin(t) /\ \E s \in Sizes : alloc_zeroed(t, s)
    \/ MayBegin(t) /\ \E s \in Sizes : dealloc(t, s)
    \/ MayBegin(t) /\ \E s \in Sizes, n \in Sizes : realloc(t, s, n)
    \/ MayBegin(t) /\ reset_peak_memory(t)
    \/ MayBegin(t) /\ get_peak_memory(t)
    \/ track_alloc_fetch_add(t)
    \/ track_alloc_fetch_max(t)
    \/ track_dealloc(t)
    \/ inner_alloc(t)
    \/ inner_dealloc(t)
    \/ inner_realloc(t)
    \/ reset_store_peak(t)
    \/ reset_store_tracker(t)
    \/ load_peak(t)
    \/ Return(t)

Spec == Init /\ [][Next]_vars

\* One thread: at most MaxSeqCalls calls, one after another.
InitSeq == InitWith({1}, Sizes)

MayBeginSeq == ncalls < MaxSeqCalls /\ UNCHANGED script

NextSeq ==
  \E t \in {1} :
    \/ MayBeginSeq /\ \E s \in Sizes : alloc(t, s)
    \/ MayBeginSeq /\ \E s \in Sizes : alloc_zeroed(t, s)
    \/ MayBeginSeq /\ \E s \in Sizes : dealloc(t, s)
    \/ MayBeginSeq /\ \E s \in Sizes, n \in Sizes : realloc(t, s, n)
    \/ MayBeginSeq /\ reset_peak_memory(t)
    \/ MayBeginSeq /\ get_peak_memory(t)
    \/ track_alloc_fetch_add(t)
    \/ track_alloc_fetch_max(t)
    \/ track_dealloc(t)
    \/ inner_alloc(t)
    \/ inner_dealloc(t)
    \/ inner_realloc(t)
    \/ reset_store_peak(t)
    \/ reset_store_tracker(t)
    \/ load_peak(t)
    \/ Return(t)

SpecSeq == InitSeq /\ [][NextSeq]_vars

\* NThreads threads, each allocating BlockBytes once and then freeing them.
InitOnce == InitWith(1 .. NThreads, {BlockBytes})

\* Thread t starts call number k of its script.
Script(t, k) == script[t] = k /\ script' = [script EXCEPT ![t] = k + 1]

NextOnce ==
  \E t \in 1 .. NThreads :
    \/ Script(t, 0) /\ alloc(t, BlockBytes)
    \/ Script(t, 1) /\ dealloc(t, BlockBytes)
    \/ track_alloc_fetch_add(t)
    \/ track_alloc_fetch_max(t)
    \/ track_dealloc(t)
    \/ inner_alloc(t)
    \/ inner_dealloc(t)
    \/ Return(t)

SpecOnce == InitOnce /\ [][NextOnce]_vars

\* The accesses of the two counters: the steps of track_alloc, track_dealloc,
\* reset_peak_memory and get_peak_memory.
Bookkeeping(t) ==
  \/ track_alloc_fetch_add(t)
  \/ track_alloc_fetch_max(t)
  \/ track_dealloc(t)
  \/ reset_store_peak(t)
  \/ reset_store_tracker(t)
  \/ load_peak(t)

\* Spec with thread 1 scheduled fairly while it is at an access of a counter:
\* a thread that is running executes its next atomic instruction. Nothing is
\* assumed of the other threads, which may stop anywhere, nor of the inner
\* allocator.
SpecFair == Init /\ [][Next]_vars /\ WF_vars(Bookkeeping(1))

\* Any interleaving of at most MaxCalls calls from the threads of Procs, none
\* of them a reset_peak_memory: one measurement epoch, begun at construction.
NextNoReset ==
  \E t \in Procs :
    \/ MayBegin(t) /\ \E s \in Sizes : alloc(t, s)
    \/ MayBegin(t) /\ \E s \in Sizes : alloc_zeroed(t, s)
    \/ MayBegin(t) /\ \E s \in Sizes : dealloc(t, s)
    \/ MayBegin(t) /\ \E s \in Sizes, n \in Sizes : realloc(t, s, n)
    \/ MayBegin(t) /\ get_peak_memory(t)
    \/ track_alloc_fetch_add(t)
    \/ track_alloc_fetch_max(t)
    \/ track_dealloc(t)
    \/ inner_alloc(t)
    \/ inner_dealloc(t)
    \/ inner_realloc(t)
    \/ load_peak(t)
    \/ Return(t)

SpecNoReset == Init /\ [][NextNoReset]_vars

\* ---------------------------------------------------------------- claims
\* SpecOnce: every thread has allocated, and freed what it was given.
OnceFinished ==
  \A t \in Threads : pc[t] = "idle" /\ (script[t] = 2 \/ (script[t] = 1 /\ pool[BlockBytes] = 0))

\* C1: once all threads have finished, the peak is at least the largest
\* number of bytes that were live at one instant (returned by the inner
\* allocator and not yet passed to its dealloc).
C1_NeverUndercount == OnceFinished => peak_bytes_allocated >= maxLive

\* C4: when NThreads threads each allocate BlockBytes once and free them, the
\* peak never exceeds NThreads * BlockBytes.
C4_PeakAtMostNB == peak_bytes_allocated <= NThreads * BlockBytes

C4_Witness ==
  OnceFinished /\ peak_bytes_allocated = NThreads * BlockBytes /\ maxLive = NThreads * BlockBytes

\* C5 as stated: once all threads have finished, the peak exceeds the largest
\* number of live bytes by at most the size of one allocation (stated here
\* for the runs in which the inner allocator never fails).
C5_Original ==
  (OnceFinished /\ unbacked = 0) => peak_bytes_allocated <= maxLive + BlockBytes

\* C5 as amended: the peak exceeds the largest number of live bytes by at most
\* the largest number of bytes that were, at one instant, counted in the
\* balance without being live (the allocations then between their fetch_add
\* and the inner allocator's return, and those the inner allocator failed).
C5_Overcount == peak_bytes_allocated <= maxLive + maxUnbacked

C5_Witness ==
  /\ OnceFinished
  /\ unbacked = 0
  /\ peak_bytes_allocated > maxLive + BlockBytes
  /\ peak_bytes_allocated = maxLive + maxUnbacked
  /\ maxLive > 0

\* No allocating call is between its fetch_add and its fetch_max, and no
\* reset between its two stores.
Quiescent == \A t \in Threads : pc[t] \notin {"track_alloc_max", "reset_store_tracker"}

\* C2 as stated: in every reachable state the peak is at least max(0, v) for
\* every value v the balance has held in the current epoch.
C2_Original == peak_bytes_allocated >= seenMax

\* C2 as amended: the same, in the states where no allocating call is between
\* its fetch_add and its fetch_max and no reset is between its two stores (an
\* epoch beginning with a reset's store to the balance).
C2_PeakCoversBalance == Quiescent => peak_bytes_allocated >= seenMax

C2_Witness ==
  /\ Quiescent
  /\ \E t \in Threads : pc[t] \notin {"idle", "done"}
  /\ seenMax > 0
  /\ peak_bytes_allocated_tracker < 0

GotPeak(t) == pc[t] = "done" /\ frame[t].op = "get_peak_memory"

\* C3 as stated: a get_peak_memory() that reads after a reset has returned and
\* before any allocating call has started since returns 0.
C3_Original ==
  \A t \in Threads : (GotPeak(t) /\ frame[t].quiet0 \in {"clean", "dirty"}) => frame[t].ret = 0

\* C3 as amended: it returns 0 provided no allocating call was between its
\* start and its fetch_max at any instant while the reset ran.
C3_ZeroAfterReset ==
  \A t \in Threads : (GotPeak(t) /\ frame[t].quiet0 = "clean") => frame[t].ret = 0

C3_Witness ==
  \E t \in Threads : /\ GotPeak(t)
                     /\ frame[t].quiet0 = "clean"
                     /\ frame[t].ret = 0
                     /\ LiveBytes > 0

\* C6: with calls issued one after another, get_peak_memory() returns the
\* largest max(0, balance just after the add) over the allocating calls since
\* the last reset (or since construction), and 0 if there was none.
C6_PeakIsMaxSinceReset == \A t \in Threads : GotPeak(t) => frame[t].ret = allocMax

C6_Witness ==
  \E t \in Threads : /\ GotPeak(t)
                     /\ frame[t].ret > 0
                     /\ frame[t].ret > peak_bytes_allocated_tracker
                     /\ peak_bytes_allocated_tracker > 0

\* C7: on a single thread, after each completed call the peak is at least
\* max(0, balance).
C7_PeakAtLeastBalance ==
  \A t \in Threads : pc[t] \in {"idle", "done"} =>
                       peak_bytes_allocated >= Max(0, peak_bytes_allocated_tracker)

C7_Witness ==
  \E t \in Threads : /\ pc[t] = "done"
                     /\ frame[t].op = "dealloc"
                     /\ last.op = "alloc"
                     /\ peak_bytes_allocated > peak_bytes_allocated_tracker
                     /\ peak_bytes_allocated_tracker > 0

\* The call before this get_peak_memory() was an allocation begun with the
\* balance at 0.
ReadAfterAlloc(t) == GotPeak(t) /\ last.op \in AllocatingOps /\ last.bal0 = 0

\* C8 as stated: whenever the balance is 0, an allocation of N bytes followed
\* immediately by a read yields N.
C8_Original == \A t \in Threads : ReadAfterAlloc(t) => frame[t].ret = last.size

\* C8 as amended: it yields the larger of N and the peak before the
\* allocation, which is N when the peak was at most N then.
C8_ReadAfterAlloc ==
  \A t \in Threads : ReadAfterAlloc(t) => frame[t].ret = Max(last.size, last.peak0)

C8_Witness ==
  \E t \in Threads : ReadAfterAlloc(t) /\ last.peak0 > last.size /\ frame[t].ret = last.peak0

\* A growing realloc has returned, of a block allocated by the call before it,
\* which began with both counters at 0.
GrewAfterAlloc(t) ==
  /\ pc[t] = "done"
  /\ frame[t].op = "realloc"
  /\ frame[t].new_size > frame[t].size
  /\ last.op \in AllocatingOps
  /\ last.ptr = "block"
  /\ last.size = frame[t].size
  /\ last.bal0 = 0
  /\ last.peak0 = 0

\* C10: from zeroed counters, allocating a bytes and then reallocating the
\* block to b > a bytes leaves the balance and the peak at b.
C10_GrowCountsDelta ==
  \A t \in Threads : GrewAfterAlloc(t) =>
     /\ peak_bytes_allocated_tracker = frame[t].new_size
     /\ peak_bytes_allocated = frame[t].new_size

C10_Witness ==
  \E t \in Threads : /\ GrewAfterAlloc(t)
                     /\ frame[t].size = 100
                     /\ frame[t].new_size = 500
                     /\ peak_bytes_allocated = 500

\* The frame of a deallocating call: dealloc, or a shrinking realloc.
IsDeallocating(f) == f.op = "dealloc" \/ (f.op = "realloc" /\ f.new_size < f.size)

\* C9: no step of a dealloc or of a shrinking realloc changes the peak; and
\* when the only two calls since construction are an allocation and the
\* dealloc of its block, the peak is the size of the block after the dealloc.
C9_DeallocKeepsPeak ==
  /\ [][\A t \in Threads :
          (pc'[t] # pc[t] /\ (IsDeallocating(frame[t]) \/ IsDeallocating(frame'[t])))
            => peak_bytes_allocated' = peak_bytes_allocated]_vars
  /\ [](\A t \in Threads :
          (ncalls = 2 /\ pc[t] = "done" /\ frame[t].op = "dealloc")
            => peak_bytes_allocated = frame[t].size)

C9_Witness ==
  \E t \in Threads : /\ ncalls = 2
                     /\ pc[t] = "done"
                     /\ frame[t].op = "dealloc"
                     /\ peak_bytes_allocated = frame[t].size
                     /\ peak_bytes_allocated_tracker = 0

\* A shrinking realloc has returned, of a block allocated by the call before
\* it, which began with both counters at 0.
ShrankAfterAlloc(t) ==
  /\ pc[t] = "done"
  /\ frame[t].op = "realloc"
  /\ frame[t].new_size < frame[t].size
  /\ last.op \in AllocatingOps
  /\ last.ptr = "block"
  /\ last.size = frame[t].size
  /\ last.bal0 = 0
  /\ last.peak0 = 0

\* C11: from zeroed counters, allocating a bytes and then reallocating the
\* block to b < a bytes leaves the peak at a and the balance at b.
C11_ShrinkCountsDelta ==
  \A t \in Threads : ShrankAfterAlloc(t) =>
     /\ peak_bytes_allocated = frame[t].size
     /\ peak_bytes_allocated_tracker = frame[t].new_size

C11_Witness ==
  \E t \in Threads : /\ ShrankAfterAlloc(t)
                     /\ frame[t].size = 500
                     /\ frame[t].new_size = 100
                     /\ peak_bytes_allocated = 500
                     /\ peak_bytes_allocated_tracker = 100

MemoryOps == {"alloc", "alloc_zeroed", "dealloc", "realloc"}

\* C12: every alloc, alloc_zeroed, dealloc and realloc call calls the inner
\* allocator's function of the same name exactly once, with its own
\* layout.size() and new_size, whatever the counters are, and returns what
\* that call returned (a block or null); it makes no inner call before its
\* last step, and reset_peak_memory and get_peak_memory make none.
C12_Transparent ==
  \A t \in Threads :
     /\ (pc[t] = "done" /\ frame[t].op \in MemoryOps) =>
           frame[t].inner = <<[fn |-> frame[t].op, size |-> frame[t].size,
                               new_size |-> frame[t].new_size, ret |-> frame[t].ptr]>>
     /\ (pc[t] # "done" \/ frame[t].op \notin MemoryOps) => frame[t].inner = <<>>

\* A shrinking realloc, issued with the balance at 0 after a reset, has
\* returned the null its inner realloc returned, with the balance negative.
C12_Witness ==
  \E t \in Threads : /\ pc[t] = "done"
                     /\ frame[t].op = "realloc"
                     /\ frame[t].ptr = "null"
                     /\ Len(frame[t].inner) = 1
                     /\ frame[t].inner[1].ret = "null"
                     /\ peak_bytes_allocated_tracker < 0

\* C13: in every interleaving, a step that lowers the peak is the store of
\* reset_peak_memory (line 82); no step of alloc, alloc_zeroed, dealloc,
\* realloc or get_peak_memory lowers it.
C13_PeakMonotone ==
  [][peak_bytes_allocated' < peak_bytes_allocated =>
       \E t \in Threads : /\ frame[t].op = "reset_peak_memory"
                          /\ pc[t] = "reset_store_peak"
                          /\ pc'[t] = "reset_store_tracker"]_vars

\* An allocation has offered the peak less than it held, and has left it.
C13_Witness ==
  \E t \in Threads : /\ pc[t] \in {"inner_alloc", "inner_realloc"}
                     /\ frame[t].log = <<"fetch_add", "fetch_max">>
                     /\ current_peak(frame[t].prev, frame[t].bytes) < peak_bytes_allocated
                     /\ \A u \in Threads \ {t} : pc[u] = "idle"

\* Thread t is in a call and has an access of a counter still to make.
InBookkeeping(t) ==
  pc[t] \in {"track_alloc_add", "track_alloc_max", "track_dealloc",
            "reset_store_peak", "reset_store_tracker", "load_peak"}

\* The number of accesses of the counters a call makes.
CounterSteps(f) ==
  IF f.op \in AllocatingOps \/ f.op = "reset_peak_memory" THEN 2
  ELSE IF f.op \in {"dealloc", "get_peak_memory"} THEN 1
  ELSE IF f.op = "realloc" THEN (IF f.new_size > f.size THEN 2 ELSE IF f.new_size < f.size THEN 1 ELSE 0)
  ELSE 0

\* The accesses of the counters a call has made so far.
CounterLog(f) == SelectSeq(f.log, LAMBDA s : s # "inner")

\* C14: no call blocks. In every state of every interleaving a thread that
\* has an access of a counter still to make can make it, whatever the other
\* threads are doing; a call makes a number of such accesses fixed by its
\* function and arguments (at most 2); and so a thread that is scheduled
\* fairly completes the bookkeeping of every call it has started, whether or
\* not the other threads take any further step.
C14_NonBlocking ==
  /\ [](\A t \in Procs :
          /\ InBookkeeping(t) => /\ ENABLED Bookkeeping(t)
                                 /\ Len(CounterLog(frame[t])) < CounterSteps(frame[t])
          /\ ~InBookkeeping(t) => Len(CounterLog(frame[t])) = CounterSteps(frame[t]))
  /\ \A t \in Procs : WF_vars(Bookkeeping(t)) => (InBookkeeping(t) ~> ~InBookkeeping(t))

\* A call has completed its bookkeeping while the call of the other thread
\* is stopped between its fetch_add and its fetch_max.
C14_Witness ==
  \E t \in Threads, u \in Threads :
     /\ pc[t] = "inner_alloc"
     /\ frame[t].log = <<"fetch_add", "fetch_max">>
     /\ pc[u] = "track_alloc_max"
     /\ frame[t].prev = frame[u].bytes

\* The call of thread t has made its fetch_max.
PastFetchMax(t) == Len(frame[t].log) >= 2 /\ frame[t].log[2] = "fetch_max"

\* C15: the value an allocation offers to the peak is the balance as its own
\* fetch_add left it, clamped at 0 from below; when that balance is negative
\* the allocation offers 0 (never the balance read as an unsigned value) and
\* its fetch_max leaves the peak as it was.
C15_ClampAtZero ==
  /\ [](\A t \in Threads :
          PastFetchMax(t) => /\ frame[t].offered = Max(0, frame[t].post)
                             /\ frame[t].post < 0 => frame[t].offered = 0)
  /\ [][\A t \in Threads :
          (pc[t] = "track_alloc_max" /\ pc'[t] # pc[t] /\ frame[t].post < 0)
            => peak_bytes_allocated' = peak_bytes_allocated]_vars

\* An allocation made after a reset and the deallocation of earlier memory
\* has offered 0, its fetch_add having left the balance negative.
C15_Witness ==
  \E t \in Threads : /\ PastFetchMax(t)
                     /\ frame[t].op \in AllocatingOps
                     /\ frame[t].post < 0
                     /\ frame[t].post = peak_bytes_allocated_tracker
                     /\ frame[t].offered = 0
                     /\ peak_bytes_allocated = 0

\* Thread t makes the fetch_max of a growing realloc whose fetch_add left the
\* balance negative.
GrowthBelowZero(t) ==
  /\ pc[t] = "track_alloc_max"
  /\ pc'[t] # pc[t]
  /\ frame[t].op = "realloc"
  /\ frame[t].post < 0

\* C16 as stated: a growing realloc whose fetch_add leaves the balance
\* negative changes the peak otherwise than an allocation of the same number
\* of bytes in the same state, which raises it to max(peak, max(0, balance
\* after the add)).
C16_Original ==
  [][\A t \in Threads :
       GrowthBelowZero(t) =>
         peak_bytes_allocated' # Max(peak_bytes_allocated, Max(0, frame[t].post))]_vars

\* C16 as amended: realloc tracks its growth through track_alloc, as alloc
\* and alloc_zeroed track their size: whatever the function, the fetch_max
\* of a call raises the peak to max(peak, max(0, balance after the call's
\* add)), and leaves it when that balance is negative.
C16_GrowthClampsToo ==
  /\ [][\A t \in Threads :
          (pc[t] = "track_alloc_max" /\ pc'[t] # pc[t]) =>
            /\ peak_bytes_allocated' = Max(peak_bytes_allocated, Max(0, frame[t].post))
            /\ frame[t].post < 0 => peak_bytes_allocated' = peak_bytes_allocated]_vars
  /\ [](\A t \in Threads :
          (PastFetchMax(t) /\ frame[t].op = "realloc") =>
             frame[t].offered = Max(0, frame[t].post))

\* A growing realloc has offered 0 to the peak, its fetch_add having left
\* the balance negative.
C16_Witness ==
  \E t \in Threads : /\ PastFetchMax(t)
                     /\ frame[t].op = "realloc"
                     /\ frame[t].new_size > frame[t].size
                     /\ frame[t].post < 0
                     /\ frame[t].offered = 0
                     /\ peak_bytes_allocated = 0

\* A call that tracks an allocation: alloc, alloc_zeroed, or a growing realloc.
IsAllocating(f) == f.op \in AllocatingOps \/ (f.op = "realloc" /\ f.new_size > f.size)

\* The accesses of the counters a call makes before its inner call.
BeforeInner(f) ==
  IF IsAllocating(f) THEN <<"fetch_add", "fetch_max">>
  ELSE IF IsDeallocating(f) THEN <<"fetch_sub">>
  ELSE <<>>

\* C17: when a call invokes the inner allocator, an alloc, alloc_zeroed or
\* growing realloc has made its fetch_add and then its fetch_max, and a
\* dealloc or shrinking realloc has made its fetch_sub; nothing follows the
\* inner call.
C17_CountersBeforeInner ==
  \A t \in Threads :
     /\ pc[t] \in {"inner_alloc", "inner_dealloc", "inner_realloc"} =>
           frame[t].log = BeforeInner(frame[t])
     /\ (pc[t] = "done" /\ frame[t].op \in MemoryOps) =>
           frame[t].log = Append(BeforeInner(frame[t]), "inner")

\* An allocation and a deallocation have both returned.
C17_Witness ==
  \E t \in Threads, u \in Threads :
     /\ pc[t] = "done"
     /\ frame[t].log = <<"fetch_add", "fetch_max", "inner">>
     /\ pc[u] = "done"
     /\ frame[u].log = <<"fetch_sub", "inner">>

\* The call of thread t has returned null from alloc, alloc_zeroed or a
\* growing realloc.
FailedAllocation(t) == pc[t] = "done" /\ IsAllocating(frame[t]) /\ frame[t].ptr = "null"

\* The call of thread t has returned null from a shrinking realloc.
FailedShrink(t) ==
  /\ pc[t] = "done"
  /\ frame[t].op = "realloc"
  /\ frame[t].new_size < frame[t].size
  /\ frame[t].ptr = "null"

\* C18 as stated: once an allocation has failed, the balance exceeds the
\* bytes actually live (stated here for a third call that follows an
\* allocation and a realloc, so that no reset has been made).
C18_Original ==
  \A t \in Threads :
     (FailedAllocation(t) /\ ncalls = 3 /\ last.op = "realloc") =>
        peak_bytes_allocated_tracker > LiveBytes

\* C18 as amended: a failed alloc, alloc_zeroed or growing realloc leaves the
\* live bytes as they were and the balance raised by its bytes, with the peak
\* raised to max(peak, max(0, balance)); every call but a reset changes the
\* difference between the balance and the live bytes by exactly that (and by
\* minus the delta of a failed shrinking realloc, by 0 otherwise), so that
\* nothing subtracts it later; the only steps that lower the balance are the
\* fetch_sub of a dealloc or shrinking realloc and the store of a reset. The
\* balance exceeds the live bytes when it was at least the live bytes before
\* the failed call.
C18_FailedStaysCounted ==
  /\ [](\A t \in Threads :
          (pc[t] = "done" /\ frame[t].op \in MemoryOps) =>
             /\ (peak_bytes_allocated_tracker - LiveBytes) - (frame[t].bal0 - frame[t].live0)
                  = IF FailedAllocation(t) THEN frame[t].bytes
                    ELSE IF FailedShrink(t) THEN 0 - frame[t].bytes
                    ELSE 0
             /\ FailedAllocation(t) =>
                  /\ LiveBytes = frame[t].live0
                  /\ peak_bytes_allocated_tracker = frame[t].bal0 + frame[t].bytes
                  /\ peak_bytes_allocated = Max(frame[t].peak0, Max(0, peak_bytes_allocated_tracker))
                  /\ frame[t].bal0 >= frame[t].live0 => peak_bytes_allocated_tracker > LiveBytes)
  /\ [][peak_bytes_allocated_tracker' < peak_bytes_allocated_tracker =>
          \E t \in Threads :
             \/ /\ pc[t] = "track_dealloc"
                /\ IsDeallocating(frame[t])
                /\ peak_bytes_allocated_tracker' = peak_bytes_allocated_tracker - frame[t].bytes
             \/ /\ pc[t] = "reset_store_tracker"
                /\ pc'[t] = "done"]_vars

\* An allocation has failed, and the one block there was has since been
\* freed: no byte is live and the balance is the size of the failed
\* allocation.
C18_Witness ==
  \E t \in Threads : /\ pc[t] = "done"
                     /\ frame[t].op = "dealloc"
                     /\ last.op \in AllocatingOps
                     /\ last.ptr = "null"
                     /\ LiveBytes = 0
                     /\ peak_bytes_allocated_tracker = last.size
                     /\ peak_bytes_allocated > last.size

\* No allocating call is between its fetch_add and its fetch_max.
TrackAllocQuiescent == \A t \in Threads : pc[t] # "track_alloc_max"

\* C19: in any interleaving without reset, in every state where no
\* allocating call is between its fetch_add and its fetch_max, the peak is
\* the largest of 0 and the values the balance has held just after a
\* fetch_add; in the other states it is at most that.
C19_PeakIsMaxAfterAdds ==
  /\ TrackAllocQuiescent => peak_bytes_allocated = allocMax
  /\ peak_bytes_allocated <= allocMax

\* Two allocations have overlapped and both have updated the peak, which is
\* the balance after the second add.
C19_Witness ==
  /\ TrackAllocQuiescent
  /\ peak_bytes_allocated = allocMax
  /\ \E t \in Threads, u \in Threads :
        /\ t # u
        /\ PastFetchMax(t)
        /\ PastFetchMax(u)
        /\ frame[u].prev = frame[t].post
        /\ frame[u].post = allocMax

\* C20: the balance is the plain sum of the bytes tracked as allocated (sizes
\* and growth deltas) less the bytes tracked as deallocated (sizes and shrink
\* deltas) since the last reset, never clamped, whether the freed memory was
\* allocated before or after it; and an allocating call leaves the peak at max(peak before,
\* max(0, balance before + bytes)), so that from a negative balance it raises
\* the peak only by what the balance climbs above 0.
C20_BalanceIsPureSum ==
  /\ peak_bytes_allocated_tracker = tracked
  /\ \A t \in Threads :
        (pc[t] = "done" /\ IsAllocating(frame[t])) =>
           peak_bytes_allocated = Max(frame[t].peak0, Max(0, frame[t].bal0 + frame[t].bytes))

\* After a reset and the deallocation of earlier memory the balance was
\* negative, and an allocation has raised the peak by less than its size.
C20_Witness ==
  \E t \in Threads : /\ pc[t] = "done"
                     /\ IsAllocating(frame[t])
                     /\ frame[t].bal0 < 0
                     /\ frame[t].peak0 = 0
                     /\ peak_bytes_allocated_tracker > 0
                     /\ peak_bytes_allocated = peak_bytes_allocated_tracker
                     /\ peak_bytes_allocated < frame[t].bytes
                     /\ tracked = frame[t].bal0 + frame[t].bytes

====
